---- MODULE Spec2Model ----
(***************************************************************************)
(* Model of the friendo frontend pieces:                                   *)
(*   - the ImageUpload React component (src/unnamed/part_000, 86-238)      *)
(*   - the vite API response logger (src/frontend/vite-api-logger.js)      *)
(* Strings that the code takes apart (data URLs, request URLs, bodies) are *)
(* sequences of tokens; everything else is a plain value.                  *)
(***************************************************************************)
EXTENDS Integers, Sequences, FiniteSets, TLC

\* ------------------------------------------------------------------ bounds
\* number of file selections (processImage calls) in one behaviour
MaxSelect == 3
\* number of onSubmit / onSkip invocations recorded in one behaviour
MaxCalls == 2
\* number of requests passing through the logger middleware
MaxReqs == 2
\* number of res.write / res.end calls in one behaviour, all responses
\* together
MaxResCalls == 3
\* length of the content of a file handed to the encoder alone
MaxBytes == 3

\* ------------------------------------------------------------ plain values
\* JavaScript null: a nullable value is << >> (null) or << v >>
NULL == << >>
Some(v) == << v >>
\* JavaScript undefined, where a token sequence is expected
UNDEFINED == << "undefined" >>

\* The File objects the user can pick: declared type and byte content.
Files ==
  { [name |-> "a.png", type |-> "image/png", bytes |-> <<137, 80, 78>>],
    [name |-> "b",     type |-> "",          bytes |-> <<255, 216>>] }

\* ---------------------------------------------------------------- base64
B64Alphabet ==
  << "A","B","C","D","E","F","G","H","I","J","K","L","M","N","O","P",
     "Q","R","S","T","U","V","W","X","Y","Z","a","b","c","d","e","f",
     "g","h","i","j","k","l","m","n","o","p","q","r","s","t","u","v",
     "w","x","y","z","0","1","2","3","4","5","6","7","8","9","+","/" >>

B64Char(n) == B64Alphabet[n + 1]

\* base64 of a byte sequence, as FileReader.readAsDataURL produces it
RECURSIVE Base64(_)
Base64(bytes) ==
  IF Len(bytes) = 0 THEN << >>
  ELSE IF Len(bytes) = 1 THEN
    << B64Char(bytes[1] \div 4), B64Char((bytes[1] % 4) * 16), "=", "=" >>
  ELSE IF Len(bytes) = 2 THEN
    << B64Char(bytes[1] \div 4),
       B64Char((bytes[1] % 4) * 16 + bytes[2] \div 16),
       B64Char((bytes[2] % 16) * 4), "=" >>
  ELSE
    << B64Char(bytes[1] \div 4),
       B64Char((bytes[1] % 4) * 16 + bytes[2] \div 16),
       B64Char((bytes[2] % 16) * 4 + bytes[3] \div 64),
       B64Char(bytes[3] % 64) >>
    \o Base64(SubSeq(bytes, 4, Len(bytes)))

\* reader.result after readAsDataURL(file): "data:<type>;base64,<payload>"
readAsDataURL(file) ==
  << "data:",
     IF file.type = "" THEN "application/octet-stream" ELSE file.type,
     ";base64", "," >> \o Base64(file.bytes)

\* String.prototype.split(','): the segments between the commas
RECURSIVE SplitComma(_)
SplitComma(s) ==
  IF \A i \in 1..Len(s) : s[i] # "," THEN << s >>
  ELSE LET k == CHOOSE i \in 1..Len(s) :
                  s[i] = "," /\ \A j \in 1..(i - 1) : s[j] # ","
       IN << SubSeq(s, 1, k - 1) >> \o SplitComma(SubSeq(s, k + 1, Len(s)))

\* variant: fileToBase64 that takes split(',')[0]
fileToBase64FirstPart(file) == SplitComma(readAsDataURL(file))[1]

\* fileToBase64: the value the promise resolves with, reader.result.split(',')[1]
fileToBase64(file) ==
  LET parts == SplitComma(readAsDataURL(file))
  IN IF Len(parts) >= 2 THEN parts[2] ELSE UNDEFINED

\* variant: the payload without the `|| 'image/jpeg'` default
EncodedPayloadNoDefault(file) ==
  [ base64 |-> fileToBase64(file), mimeType |-> file.type ]

\* the object processImage passes to setImageData
EncodedPayload(file) ==
  [ base64   |-> fileToBase64(file),
    mimeType |-> IF file.type # "" THEN file.type ELSE "image/jpeg" ]

\* ------------------------------------------------------------------ state
VARIABLES
  preview,     \* useState(null): NULL or Some(object URL number)
  imageData,   \* useState(null): NULL or Some({base64, mimeType})
  loading,     \* useState(false)
  sel,         \* the processImage calls so far: [file, status, inFlight]
               \*   status: "pending" (awaiting the read), "resolved",
               \*   "rejected", "threw" (createObjectURL threw)
               \*   inFlight: the reads pending when the call started
  blobUrls,    \* object URLs created and not revoked
  submitted,   \* arguments of the onSubmit calls, in order
  skipped,     \* number of onSkip calls
  lastOp       \* the handler that ran last

uiVars == << preview, imageData, loading, sel, blobUrls, submitted, skipped, lastOp >>

\* the dev logger (vite-api-logger.js)
VARIABLES
  pluginState, \* "none", "failed" (apiLoggerPlugin threw), "created" (it
               \*   returned a plugin object), "serving" (middleware installed)
  logFile,     \* api-logs.txt: the sequence of blocks written to it
  reqs,        \* the requests seen by the dev server, in arrival order
  endCount,    \* number of res.end calls made so far on wrapped responses
  mode         \* NULL or Some(mode): the mode vite loaded its config with

logVars == << pluginState, logFile, reqs, endCount, mode >>

\* the encoder run on its own: one file in, one payload out
VARIABLES
  encFile,     \* NULL or Some(file): the file given to the encoder
  encOut       \* NULL or Some({base64, mimeType}): what setImageData would get

encVars == << encFile, encOut >>

vars == << uiVars, logVars, encVars >>

\* processImage calls suspended at `await fileToBase64(file)`
Pending == { i \in 1..Len(sel) : sel[i].status = "pending" }

InitUI ==
  /\ preview = NULL
  /\ imageData = NULL
  /\ loading = FALSE
  /\ sel = << >>
  /\ blobUrls = {}
  /\ submitted = << >>
  /\ skipped = 0
  /\ lastOp = "mount"

\* ------------------------------------------------------- render conditions
\* variant: the file inputs rendered whatever preview is
InputsRenderedAlways == TRUE

\* {!preview ? (<file inputs>) : (<img/> <Remove/>)}
InputsRendered == preview = NULL
RemoveRendered == preview # NULL
\* {preview && imageData && (<button disabled={loading}>)}
SubmitEnabled == preview # NULL /\ imageData # NULL /\ ~loading
\* variant: the skip button without disabled={loading}
SkipEnabledAlways == TRUE

\* <button onClick={onSkip} disabled={loading}>
SkipEnabled == ~loading

\* ---------------------------------------------------------------- handlers
\* processImage(file) up to its first await; createObjectURL may throw
processImage(file, throws) ==
  IF throws
  THEN \* catch: console.error; finally: setLoading(false)
       /\ loading' = FALSE
       /\ sel' = Append(sel, [file |-> file, status |-> "threw", inFlight |-> Pending])
       /\ UNCHANGED << preview, imageData, blobUrls >>
  ELSE /\ loading' = TRUE
       /\ preview' = Some(Len(sel) + 1)
       /\ blobUrls' = blobUrls \cup {Len(sel) + 1}
       /\ sel' = Append(sel, [file |-> file, status |-> "pending", inFlight |-> Pending])
       /\ UNCHANGED imageData

\* onChange of either file input with a file chosen
handleFileSelect ==
  /\ InputsRendered
  /\ Len(sel) < MaxSelect
  /\ \E file \in Files, throws \in BOOLEAN : processImage(file, throws)
  /\ lastOp' = "select"
  /\ UNCHANGED << submitted, skipped >>
  /\ UNCHANGED << logVars, encVars >>

\* onChange with e.target.files empty: `if (!file) return`
handleFileSelectNoFile ==
  /\ InputsRendered
  /\ lastOp' = "selectNone"
  /\ UNCHANGED << preview, imageData, loading, sel, blobUrls, submitted, skipped >>
  /\ UNCHANGED << logVars, encVars >>

\* reader.onload of selection i: the await resumes, setImageData, finally
ReaderOnload(i) ==
  /\ i \in Pending
  /\ imageData' = Some(EncodedPayload(sel[i].file))
  /\ loading' = FALSE
  /\ sel' = [sel EXCEPT ![i].status = "resolved"]
  /\ lastOp' = "onload"
  /\ UNCHANGED << preview, blobUrls, submitted, skipped >>
  /\ UNCHANGED << logVars, encVars >>

\* variant: the failure path without `finally { setLoading(false) }`
ReaderOnerrorNoFinally(i) ==
  /\ i \in Pending
  /\ sel' = [sel EXCEPT ![i].status = "rejected"]
  /\ lastOp' = "onerror"
  /\ UNCHANGED << preview, imageData, loading, blobUrls, submitted, skipped >>
  /\ UNCHANGED << logVars, encVars >>

\* reader.onerror of selection i: the await throws, catch, finally
ReaderOnerror(i) ==
  /\ i \in Pending
  /\ loading' = FALSE
  /\ sel' = [sel EXCEPT ![i].status = "rejected"]
  /\ lastOp' = "onerror"
  /\ UNCHANGED << preview, imageData, blobUrls, submitted, skipped >>
  /\ UNCHANGED << logVars, encVars >>

\* what onSubmit receives when it is called with null
NullPayload == [base64 |-> UNDEFINED, mimeType |-> "null"]

\* variant: handleSubmit without the `if (imageData)` test
handleSubmitUnguarded ==
  /\ submitted' = Append(submitted, IF imageData # NULL THEN imageData[1] ELSE NullPayload)
  /\ UNCHANGED << preview, imageData, loading, sel, blobUrls, skipped >>

\* variant: handleSubmit that also resets the component after onSubmit
handleSubmitClearing ==
  IF imageData # NULL
  THEN /\ submitted' = Append(submitted, imageData[1])
       /\ preview' = NULL
       /\ imageData' = NULL
       /\ UNCHANGED << loading, sel, blobUrls, skipped >>
  ELSE UNCHANGED << preview, imageData, loading, sel, blobUrls, submitted, skipped >>

\* handleSubmit: if (imageData) onSubmit(imageData)
handleSubmit ==
  /\ IF imageData # NULL
     THEN submitted' = Append(submitted, imageData[1])
     ELSE UNCHANGED submitted
  /\ UNCHANGED << preview, imageData, loading, sel, blobUrls, skipped >>

\* handleClear: setPreview(null); setImageData(null)
handleClear ==
  /\ preview' = NULL
  /\ imageData' = NULL
  /\ UNCHANGED << loading, sel, blobUrls, submitted, skipped >>

\* click on "Use This Photo"
ClickSubmit ==
  /\ SubmitEnabled
  /\ Len(submitted) < MaxCalls
  /\ handleSubmit
  /\ lastOp' = "submit"
  /\ UNCHANGED << logVars, encVars >>

\* click on "Remove"
ClickRemove ==
  /\ RemoveRendered
  /\ handleClear
  /\ lastOp' = "clear"
  /\ UNCHANGED << logVars, encVars >>

\* click on "Skip, continue without photo": onClick={onSkip}
ClickSkip ==
  /\ SkipEnabled
  /\ skipped < MaxCalls
  /\ skipped' = skipped + 1
  /\ lastOp' = "skip"
  /\ UNCHANGED << preview, imageData, loading, sel, blobUrls, submitted >>
  /\ UNCHANGED << logVars, encVars >>

\* handleSubmit invoked directly, whatever is rendered (the spec's confirm())
ConfirmCall ==
  /\ Len(submitted) < MaxCalls
  /\ handleSubmit
  /\ lastOp' = "confirm"
  /\ UNCHANGED << logVars, encVars >>

Next ==
  \/ handleFileSelect
  \/ handleFileSelectNoFile
  \/ \E i \in 1..MaxSelect : ReaderOnload(i)
  \/ \E i \in 1..MaxSelect : ReaderOnerror(i)
  \/ ClickSubmit
  \/ ClickRemove
  \/ ClickSkip

\* the component with handleSubmit also callable directly in any state
NextAPI ==
  \/ handleFileSelect
  \/ handleFileSelectNoFile
  \/ \E i \in 1..MaxSelect : ReaderOnload(i)
  \/ \E i \in 1..MaxSelect : ReaderOnerror(i)
  \/ ClickSubmit
  \/ ClickRemove
  \/ ClickSkip
  \/ ConfirmCall

\* selections, removals and the settling of the reads
NextSelect ==
  \/ handleFileSelect
  \/ ClickRemove
  \/ \E i \in 1..MaxSelect : ReaderOnload(i)
  \/ \E i \in 1..MaxSelect : ReaderOnerror(i)

\* ---------------------------------------------------------- the dev logger
\* request URLs are sequences of characters (startsWith works on characters)
\* const apiPaths = ['/users', '/tasks', '/energy', '/api']
apiPaths ==
  { << "/","u","s","e","r","s" >>,
    << "/","t","a","s","k","s" >>,
    << "/","e","n","e","r","g","y" >>,
    << "/","a","p","i" >> }

\* String.prototype.startsWith
StartsWith(s, p) == Len(s) >= Len(p) /\ SubSeq(s, 1, Len(p)) = p

\* String.prototype.includes
Includes(s, p) ==
  \E k \in 1..(Len(s) - Len(p) + 1) : SubSeq(s, k, k + Len(p) - 1) = p

\* variant: the allowlist matched anywhere in the URL
isApiCallIncludes(url) == url # NULL /\ \E p \in apiPaths : Includes(url[1], p)

\* apiPaths.some(p => req.url?.startsWith(p)); url is NULL or Some(string)
isApiCall(url) == url # NULL /\ \E p \in apiPaths : StartsWith(url[1], p)

\* the first argument of res.write / res.end
StringChunk(d) == [kind |-> "string", data |-> d]
BufferChunk(d) == [kind |-> "buffer", data |-> d]
NoChunk == [kind |-> "undefined", data |-> << >>]
CallbackChunk == [kind |-> "function", data |-> << >>]

\* res.write(chunk[, encoding]); res.end([chunk][, encoding][, callback])
WriteChunks == { StringChunk(<< "[" >>), BufferChunk(<< "x" >>) }
EndChunks == { StringChunk(<< >>), StringChunk(<< "0", "]" >>), NoChunk, CallbackChunk }
RestArgs == { << >>, << "utf8" >> }

\* the requests that reach the dev server: req.url,
\* req.method, and the status the application sets on the response
Requests ==
  { [url |-> Some(<< "/","a","p","i","/","h" >>), method |-> "POST", statusCode |-> 500],
    [url |-> Some(<< "/","s","r","c","/","a","p","i" >>), method |-> "GET", statusCode |-> 200] }

\* JavaScript truthiness of the first argument: `if (chunk)`
Truthy(chunk) ==
  \/ chunk.kind = "buffer"
  \/ chunk.kind = "function"
  \/ chunk.kind = "string" /\ chunk.data # << >>

\* Buffer.isBuffer(chunk) ? chunk : Buffer.from(chunk) throws a TypeError
\* unless chunk is a string, a Buffer or array-like
BufferFromThrows(chunk) == chunk.kind = "function"

\* response bodies are texts over the characters "[", "]", "0" and "x".
\* JSON.parse accepts such a text when it is 0, [] or [value]; a number
\* with a leading zero ("00") is a SyntaxError
RECURSIVE IsJSON(_)
IsJSON(s) ==
  \/ s = << "0" >>
  \/ s = << "[", "]" >>
  \/ /\ Len(s) >= 3
     /\ s[1] = "["
     /\ s[Len(s)] = "]"
     /\ IsJSON(SubSeq(s, 2, Len(s) - 1))

Indent(n) == [i \in 1..n |-> "  "]

\* JSON.stringify(JSON.parse(s), null, 2), for s with IsJSON(s): the number
\* 0 prints as 0, the empty array as [], an array on indented lines
RECURSIVE Stringify(_, _)
Stringify(s, depth) ==
  IF s[1] # "[" \/ Len(s) = 2 THEN s
  ELSE << "[", "\n" >> \o Indent(depth + 1)
       \o Stringify(SubSeq(s, 2, Len(s) - 1), depth + 1)
       \o << "\n" >> \o Indent(depth) \o << "]" >>

RECURSIVE Concat(_)
\* Buffer.concat(chunks).toString('utf8')
Concat(chunks) ==
  IF chunks = << >> THEN << >> ELSE Head(chunks) \o Concat(Tail(chunks))

\* the body as logged: pretty-printed when it parses as JSON
FormattedBody(chunks) ==
  LET body == Concat(chunks)
  IN IF IsJSON(body) THEN Stringify(body, 0) ELSE body

\* the header fs.writeFileSync writes on startup
Banner == [banner |-> "=== API Response Logs ==="]

\* the block logToFile appends for a response; rid and endNo record which
\* request and which res.end call produced it
LogEntry(req, r, endNo) ==
  [ method |-> req.method,
    url    |-> req.url,
    status |-> req.statusCode,
    body   |-> FormattedBody(req.chunks),
    rid    |-> r,
    endNo  |-> endNo ]

\* what is left of a block when the write fails after some of its bytes
CutBanner == [cut |-> "banner"]
CutEntry(r, endNo) == [cut |-> "entry", rid |-> r, endNo |-> endNo]

\* fs.writeFileSync opens the file with 'w', which empties it, then writes:
\* it succeeds, or the open fails (the file is as before), or the write
\* fails at once (the file is empty) or after some bytes (a cut banner)
WriteOutcomes == { "ok", "open", "empty", "cut" }

\* fs.appendFileSync opens the file with 'a', then writes: it succeeds, or
\* fails with nothing written, or fails after some bytes (a cut block)
AppendOutcomes == { "ok", "none", "cut" }

\* variant: logToFile that writes the block at the head of the file
logToFilePrepend(file, entry) == << entry >> \o file

\* logToFile(entry): fs.appendFileSync(logFile, logEntry)
logToFile(file, entry) == Append(file, entry)

\* api-logs.txt as an earlier session left it
StaleLog == << [banner |-> "=== API Response Logs ==="], [stale |-> "entry"] >>

\* before vite starts
InitLog ==
  /\ pluginState = "none"
  /\ logFile = StaleLog
  /\ reqs = << >>
  /\ endCount = 0
  /\ mode = NULL

\* const isDev = mode === 'development'
isDev(m) == m = "development"

\* vite loads its config: defineConfig(({ mode }) => ...)
defineConfig ==
  /\ mode = NULL
  /\ \E m \in {"development", "production"} : mode' = Some(m)
  /\ UNCHANGED << pluginState, logFile, reqs, endCount >>
  /\ UNCHANGED << uiVars, encVars >>

\* apiLoggerPlugin(): every call truncates the file to the banner with
\* fs.writeFileSync and returns a new plugin object; a middleware that an
\* earlier plugin object installed stays installed. When writeFileSync
\* throws, the call throws and returns no plugin object.
apiLoggerPlugin ==
  /\ \E fs \in WriteOutcomes :
       IF fs = "ok"
       THEN /\ logFile' = << Banner >>
            /\ pluginState' = IF pluginState = "serving" THEN "serving" ELSE "created"
       ELSE /\ logFile' = CASE fs = "open"  -> logFile
                            [] fs = "empty" -> << >>
                            [] fs = "cut"   -> << CutBanner >>
            /\ pluginState' = IF pluginState = "none" THEN "failed" ELSE pluginState
  /\ UNCHANGED << reqs, endCount, mode >>
  /\ UNCHANGED << uiVars, encVars >>

\* configureServer(server): server.middlewares.use(...)
configureServer ==
  /\ pluginState = "created"
  /\ pluginState' = "serving"
  /\ UNCHANGED << logFile, reqs, endCount, mode >>
  /\ UNCHANGED << uiVars, encVars >>

\* the arguments the wrappers hand to the original method: (chunk, ...args)
ForwardedArgs(chunk, args) == << chunk, args >>

\* the middleware runs for an arriving request
Middleware ==
  /\ pluginState = "serving"
  /\ Len(reqs) < MaxReqs
  /\ \E q \in Requests :
       reqs' = Append(reqs,
                 [ url |-> q.url, method |-> q.method, statusCode |-> q.statusCode,
                   wrapped |-> isApiCall(q.url),  \* res.write / res.end replaced
                   chunks |-> << >>,              \* const chunks = []
                   resCalls |-> 0,                \* res.write + res.end calls made
                   endCalls |-> 0,                \* res.end calls made
                   origWrites |-> 0,              \* originalWrite invocations
                   origEnds |-> 0,                \* originalEnd invocations
                   sameArgs |-> TRUE,             \* originals got the caller's arguments
                   logErrors |-> 0,               \* 'Failed to log API response' reports
                   escaped |-> 0 ])               \* exceptions thrown to the caller
  /\ UNCHANGED << pluginState, logFile, endCount, mode >>
  /\ UNCHANGED << uiVars, encVars >>

\* the res.write / res.end calls made so far on the first n responses
RECURSIVE ResCallsUpTo(_, _)
ResCallsUpTo(rs, n) ==
  IF n = 0 THEN 0 ELSE rs[n].resCalls + ResCallsUpTo(rs, n - 1)

TotalResCalls(rs) == ResCallsUpTo(rs, Len(rs))

\* res.write(chunk, ...args) as replaced by the middleware
WrappedWrite(r, chunk, args) ==
  IF Truthy(chunk) /\ ~(chunk.kind = "buffer") /\ BufferFromThrows(chunk)
  THEN reqs' = [reqs EXCEPT ![r].resCalls = @ + 1, ![r].escaped = @ + 1]
  ELSE reqs' = [reqs EXCEPT
                  ![r].resCalls = @ + 1,
                  ![r].chunks = IF Truthy(chunk) THEN Append(@, chunk.data) ELSE @,
                  ![r].origWrites = @ + 1,
                  ![r].sameArgs = @ /\ ForwardedArgs(chunk, args) = << chunk, args >>]

\* the application calls res.write on response r
ResWrite(r) ==
  /\ r \in 1..Len(reqs)
  /\ reqs[r].origEnds = 0
  /\ TotalResCalls(reqs) < MaxResCalls
  /\ \E chunk \in WriteChunks, args \in RestArgs :
       IF reqs[r].wrapped
       THEN WrappedWrite(r, chunk, args)
       ELSE reqs' = [reqs EXCEPT ![r].resCalls = @ + 1, ![r].origWrites = @ + 1]
  /\ UNCHANGED << pluginState, logFile, endCount, mode >>
  /\ UNCHANGED << uiVars, encVars >>

\* res.end(chunk, ...args) as replaced by the middleware
WrappedEnd(r, chunk, args, fs) ==
  IF Truthy(chunk) /\ ~(chunk.kind = "buffer") /\ BufferFromThrows(chunk)
  THEN \* Buffer.from throws before the try block
       /\ reqs' = [reqs EXCEPT ![r].resCalls = @ + 1, ![r].endCalls = @ + 1,
                               ![r].escaped = @ + 1]
       /\ UNCHANGED logFile
  ELSE /\ reqs' = [reqs EXCEPT
                     ![r].resCalls = @ + 1, ![r].endCalls = @ + 1,
                     ![r].chunks = IF Truthy(chunk) THEN Append(@, chunk.data) ELSE @,
                     ![r].origEnds = @ + 1,
                     ![r].logErrors = IF fs = "ok" THEN @ ELSE @ + 1,
                     ![r].sameArgs = @ /\ ForwardedArgs(chunk, args) = << chunk, args >>]
       /\ \* when appendFileSync throws: caught, console.error
          logFile' = CASE fs = "ok" ->
                            logToFile(logFile, LogEntry(reqs'[r], r, endCount + 1))
                       [] fs = "none" -> logFile
                       [] fs = "cut" ->
                            logToFile(logFile, CutEntry(r, endCount + 1))

\* the application calls res.end on response r
ResEnd(r) ==
  /\ r \in 1..Len(reqs)
  /\ reqs[r].origEnds = 0
  /\ TotalResCalls(reqs) < MaxResCalls
  /\ \E chunk \in EndChunks, args \in RestArgs, fs \in AppendOutcomes :
       IF reqs[r].wrapped
       THEN WrappedEnd(r, chunk, args, fs) /\ endCount' = endCount + 1
       ELSE /\ reqs' = [reqs EXCEPT ![r].resCalls = @ + 1, ![r].endCalls = @ + 1,
                                    ![r].origEnds = @ + 1]
            /\ UNCHANGED << logFile, endCount >>
  /\ UNCHANGED << pluginState, mode >>
  /\ UNCHANGED << uiVars, encVars >>

\* the plugin, the server and the responses; the mode stays unknown
NextLog ==
  \/ apiLoggerPlugin
  \/ configureServer
  \/ Middleware
  \/ \E r \in 1..MaxReqs : ResWrite(r)
  \/ \E r \in 1..MaxReqs : ResEnd(r)

\* vite started in some mode: the config, the plugin, the server and the
\* responses
NextMode ==
  \/ defineConfig
  \/ apiLoggerPlugin
  \/ configureServer
  \/ Middleware
  \/ \E r \in 1..MaxReqs : ResWrite(r)
  \/ \E r \in 1..MaxReqs : ResEnd(r)

\* ------------------------------------------------------- the encoder alone
\* byte values and declared types of the files given to the encoder
ByteValues == {0, 137, 255}
FileTypes == {"", "image/png", "image/jpeg"}

\* the byte sequences of length n
RECURSIVE BytesOfLen(_)
BytesOfLen(n) ==
  IF n = 0 THEN { << >> }
  ELSE { Append(b, v) : b \in BytesOfLen(n - 1), v \in ByteValues }

\* image files: some content, any declared type
EncFiles ==
  { [name |-> "f", type |-> t, bytes |-> b] :
      t \in FileTypes, b \in UNION { BytesOfLen(n) : n \in 1..MaxBytes } }

InitEnc ==
  /\ encFile = NULL
  /\ encOut = NULL

\* a file is picked
PickFile ==
  /\ encFile = NULL
  /\ \E f \in EncFiles : encFile' = Some(f)
  /\ UNCHANGED << encOut, uiVars, logVars >>

\* processImage's successful path on that file: await fileToBase64, setImageData
EncodeFile ==
  /\ encFile # NULL
  /\ encOut = NULL
  /\ encOut' = Some(EncodedPayload(encFile[1]))
  /\ UNCHANGED << encFile, uiVars, logVars >>

NextEncode ==
  \/ PickFile
  \/ EncodeFile

\* ---------------------------------------------------------- specifications
\* the component is mounted and the dev server process is about to start
Init == InitUI /\ InitLog /\ InitEnc

\* the ImageUpload component driven through its rendered controls
Spec == Init /\ [][Next]_vars

SpecAPI == Init /\ [][NextAPI]_vars

\* the dev server with the logger plugin
SpecLogger == Init /\ [][NextLog]_vars

\* the dev server started by vite in a development or production mode
SpecMode == Init /\ [][NextMode]_vars

\* the encoder applied to one file
SpecEncode == Init /\ [][NextEncode]_vars

\* selections and removals, every started read eventually firing onload or
\* onerror
SpecSettle ==
  /\ Init
  /\ [][NextSelect]_vars
  /\ \A i \in 1..MaxSelect : WF_vars(ReaderOnload(i) \/ ReaderOnerror(i))

\* ------------------------------------------------------------------ claims
\* the latest selection, when its preview is still displayed
LatestShown == Len(sel) > 0 /\ preview = Some(Len(sel))

\* C1 (as stated): when a selection was started while the previous one was
\* still being encoded, and both encodes have completed, imageData is the
\* encoding of the later file.
C1_LastWriteWins ==
  \A k \in 1..(Len(sel) - 1) :
    ( /\ k + 1 = Len(sel)
      /\ k \in sel[k + 1].inFlight
      /\ sel[k].status = "resolved"
      /\ sel[k + 1].status = "resolved"
      /\ LatestShown )
    => imageData = Some(EncodedPayload(sel[k + 1].file))

\* C2 (as stated): the submit button is enabled only when preview and
\* imageData are present and no fileToBase64 read is pending.
C2_SubmitOnlyWhenIdle ==
  SubmitEnabled => (preview # NULL /\ imageData # NULL /\ Pending = {})

\* C3 (as stated): skip can be activated in every state, also while loading.
C3_SkipValidInEveryState == SkipEnabled

\* C3 (amended): onSkip is invoked only while loading is false; each
\* activation invokes onSkip exactly once, never onSubmit, and leaves
\* preview, imageData and loading alone.
C3_SkipOnlyWhenNotLoading ==
  [][ skipped' # skipped =>
        /\ ~loading
        /\ skipped' = skipped + 1
        /\ submitted' = submitted
        /\ UNCHANGED << preview, imageData, loading >> ]_vars

C3_Witness == lastOp = "skip" /\ skipped = 1 /\ Len(sel) > 0 /\ Pending = {}

\* C4: handleSubmit called while imageData is absent does not invoke
\* onSubmit and leaves preview, imageData and loading unchanged.
C4_ConfirmWithoutPayloadIsNoOp ==
  [][ (imageData = NULL /\ lastOp' = "confirm") =>
        UNCHANGED << preview, imageData, loading, submitted, skipped >> ]_vars

C4_Witness == lastOp = "confirm" /\ imageData = NULL /\ loading /\ submitted = << >>

\* C5 (as stated): imageData is present exactly when preview is present and
\* the encode of the previewed file has completed.
C5_PayloadIffPreviewEncoded ==
  (imageData # NULL) <=> (preview # NULL /\ sel[preview[1]].status = "resolved")

\* C6 (as stated): after Remove on a completed selection the component is as
\* initially: nothing previewed, no payload, not loading, submit disabled,
\* and no object URL left registered.
C6_ClearRestoresEmpty ==
  (lastOp = "clear" /\ Len(sel) > 0 /\ sel[Len(sel)].status = "resolved")
    => ( /\ preview = NULL
         /\ imageData = NULL
         /\ ~loading
         /\ ~SubmitEnabled
         /\ blobUrls = {} )

\* C7 (as stated): right after onSubmit or onSkip was invoked, preview and
\* imageData are absent.
C7_ClearedOnSubmission ==
  lastOp \in {"submit", "skip"} => (preview = NULL /\ imageData = NULL)

\* C7 (amended): invoking onSubmit or onSkip leaves preview, imageData and
\* loading unchanged; after onSubmit(payload) the submit button is still
\* enabled with the same payload.
C7_SubmissionKeepsPendingImage ==
  [][ /\ (submitted' # submitted \/ skipped' # skipped)
          => UNCHANGED << preview, imageData, loading >>
      /\ submitted' # submitted
          => (SubmitEnabled' /\ submitted' = Append(submitted, imageData[1])) ]_vars

C7_Witness ==
  lastOp = "submit" /\ Len(submitted) = 2 /\ submitted[1] = submitted[2]

\* C8 (as stated): after a failed selection (the read rejected, or creating
\* the preview threw) loading is false, imageData is absent and submit is
\* not enabled.
C8_FailureLeavesNoPayload ==
  ( \/ lastOp = "onerror"
    \/ lastOp = "select" /\ sel[Len(sel)].status = "threw" )
    => (~loading /\ imageData = NULL /\ ~SubmitEnabled)

\* C9 (as stated): every call of the replaced res.write / res.end reaches the
\* original exactly once with the caller's arguments, and none throws.
C9_OriginalAlwaysCalled ==
  \A r \in 1..Len(reqs) :
    reqs[r].wrapped =>
      /\ reqs[r].escaped = 0
      /\ reqs[r].origWrites + reqs[r].origEnds = reqs[r].resCalls
      /\ reqs[r].sameArgs

\* the whole entries among the blocks of the file
IsEntry(b) == "body" \in DOMAIN b

\* the blocks written for a response: whole entries and cut ones
IsResponseBlock(b) == "rid" \in DOMAIN b

\* C10 (as stated): the entries are in the order their requests arrived.
C10_ArrivalOrder ==
  \A i, j \in 1..Len(logFile) :
    (i < j /\ IsEntry(logFile[i]) /\ IsEntry(logFile[j]))
      => logFile[i].rid <= logFile[j].rid

\* C10 (amended): every change of the file is either a truncation by a
\* call of apiLoggerPlugin (to the banner alone, or to nothing or a cut
\* banner when its write fails) or the append of one block at the end, the
\* block of the res.end call being made (the whole entry, or a cut one when
\* the append fails partway); so between two truncations the blocks are in
\* the order the responses end and none is changed or removed.
C10_AppendOnlyInEndOrder ==
  [][ logFile' # logFile =>
        \/ /\ logFile' \in { << Banner >>, << >>, << CutBanner >> }
           /\ UNCHANGED << reqs, endCount >>
        \/ /\ Len(logFile') = Len(logFile) + 1
           /\ SubSeq(logFile', 1, Len(logFile)) = logFile
           /\ IsResponseBlock(logFile'[Len(logFile')])
           /\ endCount' = endCount + 1
           /\ logFile'[Len(logFile')].endNo = endCount' ]_vars

C10_Witness ==
  /\ Len(logFile) = 3
  /\ logFile[1] = Banner
  /\ logFile[2].rid = 2
  /\ logFile[3].rid = 1

\* C11: the payload of a successful encode has mimeType 'image/jpeg' when
\* the file's declared type is empty, and the declared type otherwise.
C11_MimeTypeDefault ==
  encOut # NULL =>
    encOut[1].mimeType =
      (IF encFile[1].type = "" THEN "image/jpeg" ELSE encFile[1].type)

C11_Witness ==
  encOut # NULL /\ encFile[1].type = "" /\ encOut[1].mimeType = "image/jpeg"

\* position of a base64 character in the alphabet
B64Index(c) == CHOOSE n \in 0..63 : B64Alphabet[n + 1] = c

\* the bytes a base64 text stands for (atob)
RECURSIVE Base64Decode(_)
Base64Decode(t) ==
  IF Len(t) < 4 THEN << >>
  ELSE LET i1 == B64Index(t[1])
           i2 == B64Index(t[2])
           b1 == i1 * 4 + i2 \div 16
       IN IF t[3] = "=" THEN << b1 >>
          ELSE LET i3 == B64Index(t[3])
                   b2 == (i2 % 16) * 16 + i3 \div 4
               IN IF t[4] = "=" THEN << b1, b2 >>
                  ELSE << b1, b2, (i3 % 4) * 64 + B64Index(t[4]) >>
                       \o Base64Decode(SubSeq(t, 5, Len(t)))

B64Chars == { B64Alphabet[i] : i \in 1..64 } \cup { "=" }

\* C12: for an image file the base64 field of the payload holds base64
\* characters only (nothing of the "data:...;base64," prefix) and decodes
\* to the bytes of the file.
C12_Base64RoundTrip ==
  encOut # NULL =>
    /\ \A i \in 1..Len(encOut[1].base64) : encOut[1].base64[i] \in B64Chars
    /\ Base64Decode(encOut[1].base64) = encFile[1].bytes

C12_Witness ==
  /\ encOut # NULL
  /\ encFile[1].bytes = << 255, 137 >>
  /\ encOut[1].base64 = << "/", "4", "k", "=" >>

\* C13 (as stated): while vite runs in a mode other than development no
\* step of the logger changes the log file (neither the startup truncation
\* nor an append) and no arriving request has its response methods replaced.
C13_OnlyInDevelopment ==
  [][ (mode # NULL /\ ~isDev(mode[1])) =>
        /\ logFile' = logFile
        /\ \A r \in 1..Len(reqs') : r > Len(reqs) => ~reqs'[r].wrapped ]_vars

\* C14 (as stated): when the read of a selection that a later selection has
\* superseded resolves, imageData and loading stay as they were.
C14_StaleCompletionDiscarded ==
  [][ \A i \in Pending :
        (sel'[i].status = "resolved" /\ i < Len(sel))
          => UNCHANGED << imageData, loading >> ]_vars

\* C15 (as stated): when the read of the latest selection resolves after
\* that selection was removed, imageData stays absent.
C15_ClearNotUndone ==
  [][ \A i \in Pending :
        (sel'[i].status = "resolved" /\ i = Len(sel) /\ preview = NULL)
          => imageData' = NULL ]_vars

\* C16 (as stated): at most one fileToBase64 read is pending at any time.
C16_AtMostOneInFlight == Cardinality(Pending) <= 1

\* C16 (amended): a selection starts only while no preview is displayed
\* and starts at most one read; reads of removed selections stay pending.
C16_OneEncodePerLifecycle ==
  [][ Len(sel') > Len(sel) =>
        /\ preview = NULL
        /\ Len(sel') = Len(sel) + 1
        /\ Pending' \subseteq Pending \cup {Len(sel')}
        /\ (preview' # NULL => preview' = Some(Len(sel'))) ]_vars

C16_Witness == Cardinality(Pending) = 2 /\ preview # NULL /\ loading

\* C17 (as stated): after the read of a selection failed the file inputs
\* are rendered again.
C17_RetryAfterFailure == lastOp = "onerror" => InputsRendered

\* C19 (as stated): the payload handed to onSubmit is the encoding of the
\* file whose preview is displayed.
C19_SubmitsPreviewedFile ==
  lastOp = "submit" =>
    /\ preview # NULL
    /\ submitted[Len(submitted)] = EncodedPayload(sel[preview[1]].file)

\* the number of entries in the log file written for request r
EntriesOf(r) ==
  Cardinality({ i \in 1..Len(logFile) : IsEntry(logFile[i]) /\ logFile[i].rid = r })

\* the URL begins with '/users', '/tasks', '/energy' or '/api'
HasApiPrefix(url) ==
  /\ url # NULL
  /\ \E p \in { << "/","u","s","e","r","s" >>, << "/","t","a","s","k","s" >>,
               << "/","e","n","e","r","g","y" >>, << "/","a","p","i" >> } :
       /\ Len(url[1]) >= Len(p)
       /\ \A k \in 1..Len(p) : url[1][k] = p[k]

\* C18 (as stated): a request with an allowlisted prefix has exactly one
\* entry per res.end call; any other request has its res.write / res.end
\* unreplaced and no entry.
C18_OneEntryPerEnd ==
  \A r \in 1..Len(reqs) :
    IF HasApiPrefix(reqs[r].url)
    THEN EntriesOf(r) = reqs[r].endCalls
    ELSE ~reqs[r].wrapped /\ EntriesOf(r) = 0

\* C18 (amended): blocks are appended only by res.end calls on requests
\* with an allowlisted prefix, at most one per call: such a call appends one
\* whole entry of its request, or reports one log failure (the file is as
\* before or has one cut block of the request more), or throws while
\* capturing the chunk (the file is as before); a request is wrapped exactly
\* when its URL has an allowlisted prefix, and a res.end call on any other
\* request leaves the file as it is.
C18_AtMostOneEntryPerEnd ==
  [][ /\ \A r \in 1..Len(reqs') :
           reqs'[r].wrapped <=> HasApiPrefix(reqs'[r].url)
      /\ \A r \in 1..Len(reqs) :
           reqs'[r].endCalls # reqs[r].endCalls =>
             /\ reqs'[r].endCalls = reqs[r].endCalls + 1
             /\ IF HasApiPrefix(reqs[r].url)
                THEN \/ /\ Len(logFile') = Len(logFile) + 1
                        /\ logFile' = Append(logFile, logFile'[Len(logFile')])
                        /\ IsEntry(logFile'[Len(logFile')])
                        /\ logFile'[Len(logFile')].rid = r
                        /\ reqs'[r].logErrors = reqs[r].logErrors
                        /\ reqs'[r].escaped = reqs[r].escaped
                     \/ /\ logFile' = logFile
                        /\ reqs'[r].logErrors + reqs'[r].escaped
                             = reqs[r].logErrors + reqs[r].escaped + 1
                     \/ /\ Len(logFile') = Len(logFile) + 1
                        /\ logFile' = Append(logFile, logFile'[Len(logFile')])
                        /\ ~IsEntry(logFile'[Len(logFile')])
                        /\ logFile'[Len(logFile')].rid = r
                        /\ reqs'[r].logErrors = reqs[r].logErrors + 1
                        /\ reqs'[r].escaped = reqs[r].escaped
                ELSE logFile' = logFile
      /\ \A i \in 1..Len(logFile') :
           ( /\ IsResponseBlock(logFile'[i])
             /\ (i > Len(logFile) \/ logFile[i] # logFile'[i]) ) =>
             \E r \in 1..Len(reqs) :
               /\ HasApiPrefix(reqs[r].url)
               /\ reqs'[r].endCalls = reqs[r].endCalls + 1 ]_vars

C18_Witness ==
  /\ \E r \in 1..Len(reqs) :
       /\ reqs[r].wrapped
       /\ reqs[r].endCalls = 2
       /\ reqs[r].escaped = 1
       /\ EntriesOf(r) = 1
  /\ \E r \in 1..Len(reqs) :
       ~reqs[r].wrapped /\ reqs[r].endCalls = 1 /\ EntriesOf(r) = 0

\* C20: loading is false whenever no read is pending, and whenever loading
\* is true it becomes false again, given that every read settles.
C20_LoadingEnds ==
  /\ [](Pending = {} => ~loading)
  /\ (loading ~> ~loading)

C20_Witness ==
  /\ Pending = {}
  /\ ~loading
  /\ \E i \in 1..Len(sel) : sel[i].status = "resolved"
  /\ \E i \in 1..Len(sel) : sel[i].status = "rejected"

====
